---- MODULE Spec2Model ----
(***************************************************************************)
(* A model of listdupes.py: the checksum engine (checksum_files), the      *)
(* archive/cache pairing that lets an interrupted run resume, the          *)
(* duplicate grouper (locate_dupes) and the status reporter (Dupes.status).*)
(*                                                                         *)
(* Paths are the integers 1..NPaths (their order is the sort order of the  *)
(* paths), checksums of files with data are the integers 1..NSums, the     *)
(* checksum of no data is 0.  Wall-clock times of error records are left   *)
(* out: an error record is the pair <<file_name, error_text>>.  The file   *)
(* system is fixed over a behaviour; every path of the archive has one     *)
(* outcome when it is opened.                                              *)
(***************************************************************************)
EXTENDS Integers, Sequences, FiniteSets, TLC

\* ------------------------------------------------------------------ bounds
NPaths == 3

NSums == 2

MaxRuns == 2

MaxLen == 4

MaxDepth == 5

\* ------------------------------------------------------------- vocabulary
Paths == 1..NPaths

Sums == 1..NSums

Cats == {"permission_errors", "file_not_found_errors", "misc_errors"}

\* What open(file_path, "rb") and the reads that follow do for one path.
\* "disconnected" is a not-found failure of a path one of whose parents no
\* longer exists.
ErrorKinds == {"perm", "notfound", "disconnected", "misc"}

\* zlib.crc32(b""), the checksum line 919 computes for a file without data.
ChecksumOfNoData == 0

\* "file" is a readable file with data, "empty" a readable file without.
Entries ==
    {[kind |-> "file", sum |-> s] : s \in Sums}
        \cup {[kind |-> "empty", sum |-> ChecksumOfNoData]}
        \cup {[kind |-> k, sum |-> 0] : k \in {"dir"} \cup ErrorKinds}

FileSystems == [Paths -> Entries]

\* The two archives that exist: the one being read and another one.
ArchiveTime == 1

OtherArchiveTime == 2

StartingPath == 0

\* What the archive file holds: the document _Archive.write_to_file dumps,
\* text that is not JSON, an object without one of the three keys, a JSON
\* value that is not an object, or an object with a number where the
\* conversions of lines 135-139 need text or a list.
ArchiveContents == {"ok", "invalid_json", "missing_key", "non_object", "wrong_type"}

NotAnArchiveMessage == "The file you have chosen is not a valid archive."

MismatchMessage == "cache holds work done on another archive: move or delete it"

CorruptMessage == "cache contents can no longer be verified: delete the file and rerun"

\* ---------------------------------------------------------------- helpers
RECURSIVE SetToSortedSeq(_)
SetToSortedSeq(S) ==
    IF S = {} THEN <<>>
    ELSE LET m == CHOOSE x \in S : \A y \in S : x <= y
         IN <<m>> \o SetToSortedSeq(S \ {m})

Range(s) == {s[i] : i \in 1..Len(s)}

\* Python's tuple comparison on (path, checksum) pairs.
PairLess(a, b) == a[1] < b[1] \/ (a[1] = b[1] /\ a[2] < b[2])

EmptyErrors == [c \in Cats |-> {}]

\* errno text by kind of failure, and the category each kind is stored in.
ErrorText(kind) ==
    CASE kind = "perm" -> "Permission denied"
      [] kind \in {"notfound", "disconnected"} -> "No such file or directory"
      [] OTHER -> "Input/output error"

ErrorCat(kind) ==
    CASE kind = "perm" -> "permission_errors"
      [] kind \in {"notfound", "disconnected"} -> "file_not_found_errors"
      [] OTHER -> "misc_errors"

\* ------------------------------------------------------------- cache file
NoFile ==
    [exists |-> FALSE, prefix |-> "bad", body |-> "invalid_json",
     archive_creation_time |-> 0, archived_starting_path |-> StartingPath,
     place |-> 0, os_errors |-> EmptyErrors, paths_and_sums |-> <<>>]

\* An empty or unreadable file: what open(path, "w") leaves before the dump,
\* or what another program wrote.
GarbageFile == [NoFile EXCEPT !.exists = TRUE]

\* The leading values are there, the rest is not valid JSON.
PartialFile(time) ==
    [GarbageFile EXCEPT !.prefix = "ok", !.archive_creation_time = time]

\* Valid JSON with the leading values, whose items have the wrong shape.
WrongTypeFile(time) ==
    [PartialFile(time) EXCEPT !.body = "wrong_type"]

MissingKeyFile(time) ==
    [PartialFile(time) EXCEPT !.body = "missing_key"]

\* _Cache.write_to_file, lines 230-246: the JSON document that is dumped.
CacheDocument(time, start, pas, errs, plc) ==
    [exists |-> TRUE, prefix |-> "ok", body |-> "ok",
     archive_creation_time |-> time, archived_starting_path |-> start,
     place |-> plc, os_errors |-> errs, paths_and_sums |-> pas]

\* A cache left behind by work on the other archive.
ForeignCache ==
    CacheDocument(OtherArchiveTime, StartingPath, <<<<1, 1>>>>, EmptyErrors, 1)

InitialCacheFiles ==
    {NoFile, ForeignCache, GarbageFile, PartialFile(ArchiveTime),
     PartialFile(OtherArchiveTime), WrongTypeFile(ArchiveTime),
     MissingKeyFile(ArchiveTime)}

\* _PersistantData.read_possible_values: the values found at the start of
\* the file, <<>> when they are not there.
read_possible_values(file) ==
    IF file.prefix = "ok"
    THEN <<file.archive_creation_time, file.archived_starting_path>>
    ELSE <<>>

\* _PersistantData.read_values_shared_by_an_archive_and_cache: unpacking or
\* converting the values fails with a ValueError.
read_values_shared_by_an_archive_and_cache(file) ==
    LET vals == read_possible_values(file)
    IN IF Len(vals) = 2
       THEN [exc |-> "none", time |-> vals[1], path |-> vals[2]]
       ELSE [exc |-> "ValueError", time |-> 0, path |-> StartingPath]

\* As the definition below, with the comparison of line 181 left out.
Cache_read_and_set_shared_without_comparison(file, validation_value) ==
    LET shared == read_values_shared_by_an_archive_and_cache(file)
    IN IF shared.exc = "_ValidationError"
       THEN [exc |-> "_ValidationError", message |-> MismatchMessage]
       ELSE IF shared.exc # "none"
       THEN [exc |-> shared.exc, message |-> ""]
       ELSE [exc |-> "none", message |-> ""]

\* _Cache.read_and_set_shared_creation_and_start_values.  The handler is for
\* _ValidationError, so the ValueError of the short read passes through it.
Cache_read_and_set_shared_creation_and_start_values(file, validation_value) ==
    LET shared == read_values_shared_by_an_archive_and_cache(file)
    IN IF shared.exc = "_ValidationError"
       THEN [exc |-> "_ValidationError", message |-> MismatchMessage]
       ELSE IF shared.exc # "none"
       THEN [exc |-> shared.exc, message |-> ""]
       ELSE IF shared.time # validation_value
       THEN [exc |-> "_ValidationError", message |-> MismatchMessage]
       ELSE [exc |-> "none", message |-> ""]

\* _Cache.read_items_from_file: json.load and the conversions after it.
\* JSONDecodeError and KeyError become a _ValidationError, any other
\* exception of the conversions (an IndexError on a short item) is not
\* handled.  The error collections come back as lists.
Cache_read_items_from_file(file) ==
    CASE file.body = "ok" -> [exc |-> "none", message |-> ""]
      [] file.body \in {"invalid_json", "missing_key"} ->
            [exc |-> "_ValidationError", message |-> CorruptMessage]
      [] OTHER -> [exc |-> "IndexError", message |-> ""]

\* ------------------------------------------------------ checksum engine
\* An error collection: in a fresh run the three categories are sets, after
\* _Cache.read_items_from_file they are lists (type = "list").
FreshErrors == [type |-> "set", items |-> EmptyErrors]

\* errors_container[cat].add(record): a list has no add method.
AddError(errors, cat, record) ==
    IF errors.type = "set"
    THEN [exc |-> "none",
          errors |-> [errors EXCEPT !.items[cat] = @ \cup {record}]]
    ELSE [exc |-> "AttributeError", errors |-> errors]

\* _check_path_for_disconnection: raises when a parent of the path is gone.
check_path_for_disconnection(entry) ==
    IF entry.kind = "disconnected" THEN "PreviousFileNotFoundError" ELSE "none"

\* The loop of lines 878-882 over file_path.parents, which run from the
\* parent of the file up to the root.  exist[i] is parent_path.exists() of
\* the i-th of them; missing and longest are the indexes of
\* missing_parent_path and longest_existing_parent, 0 for None.
RECURSIVE ParentsLoop(_, _, _, _)
ParentsLoop(exist, i, missing, longest) ==
    IF i > Len(exist) THEN [missing |-> missing, longest |-> longest]
    ELSE IF ~exist[i] /\ missing = 0
    THEN ParentsLoop(exist, i + 1, i, longest)
    ELSE IF exist[i] /\ missing # 0
    THEN ParentsLoop(exist, i + 1, missing, i)
    ELSE ParentsLoop(exist, i + 1, missing, longest)

\* _check_path_for_disconnection on the parents themselves: the exception it
\* raises with its filename and filename2.
check_parents_for_disconnection(exist) ==
    LET found == ParentsLoop(exist, 1, 0, 0)
    IN IF found.missing # 0
       THEN [exc |-> "PreviousFileNotFoundError", filename |-> found.missing,
             filename2 |-> found.longest]
       ELSE [exc |-> "none", filename |-> 0, filename2 |-> 0]

\* As the definition below, with a file without data recorded among the
\* miscellaneous errors instead of the results.
checksum_file_and_store_outcome_no_data_is_error(file_path, entry, results, errors) ==
    CASE entry.kind = "file" ->
            [results |-> Append(results, <<file_path, entry.sum>>),
             errors |-> errors, exc |-> "none", stored |-> TRUE]
      [] entry.kind = "dir" ->
            [results |-> results, errors |-> errors, exc |-> "none",
             stored |-> TRUE]
      [] OTHER ->
            LET kind == IF entry.kind = "empty" THEN "misc" ELSE entry.kind
                added == AddError(errors, ErrorCat(kind),
                                  <<file_path, ErrorText(kind)>>)
            IN [results |-> results,
                errors |-> added.errors,
                exc |-> IF added.exc # "none" THEN added.exc
                        ELSE check_path_for_disconnection(entry),
                stored |-> added.exc = "none"]

\* _checksum_file_and_store_outcome: the containers after the call, the
\* exception that leaves it, and whether an outcome was stored for the path.
checksum_file_and_store_outcome(file_path, entry, results, errors) ==
    CASE entry.kind = "file" ->
            [results |-> Append(results, <<file_path, entry.sum>>),
             errors |-> errors, exc |-> "none", stored |-> TRUE]
      [] entry.kind = "empty" ->
            \* lines 916-921: the generator has no first chunk
            [results |-> Append(results, <<file_path, ChecksumOfNoData>>),
             errors |-> errors, exc |-> "none", stored |-> TRUE]
      [] entry.kind = "dir" ->
            [results |-> results, errors |-> errors, exc |-> "none",
             stored |-> TRUE]
      [] OTHER ->
            LET added == AddError(errors, ErrorCat(entry.kind),
                                  <<file_path, ErrorText(entry.kind)>>)
            IN [results |-> results,
                errors |-> added.errors,
                exc |-> IF added.exc # "none" THEN added.exc
                        ELSE check_path_for_disconnection(entry),
                stored |-> added.exc = "none"]

\* As the definition below, with the list left in the order of enumeration.
SortResults_left_unsorted(pas) == pas

\* paths_and_sums.sort() and sorted(v) of each error category.
SortResults(pas) == SortSeq(pas, PairLess)

SortErrors(items) ==
    [c \in Cats |->
        LET names == {r[1] : r \in items[c]}
        IN [i \in 1..Cardinality(names) |->
              LET n == SetToSortedSeq(names)[i]
              IN CHOOSE r \in items[c] : r[1] = n]]

\* ------------------------------------------------------ duplicate grouper
EmptyDupes == [k \in {} |-> {}]

\* As the definition below, with the search of the values left out.
not_in_values_unchecked(d, test_value) == TRUE

\* Dupes.not_in_values
not_in_values(d, test_value) == \A k \in DOMAIN d : test_value \notin d[k]

\* dupes[key].add(value) on the defaulting mapping.
AddDupe(d, key, value) ==
    IF key \in DOMAIN d
    THEN [d EXCEPT ![key] = @ \cup {value}]
    ELSE [k \in DOMAIN d \cup {key} |-> IF k = key THEN {value} ELSE d[k]]

\* The inner loop of locate_dupes over the entries after index i.
RECURSIVE CompareWithLater(_, _, _, _)
CompareWithLater(d, pas, i, j) ==
    IF j > Len(pas) THEN d
    ELSE LET checksums_are_equal == pas[i][2] = pas[j][2]
             next == IF checksums_are_equal /\ not_in_values(d, pas[i][1])
                     THEN AddDupe(d, pas[i][1], pas[j][1])
                     ELSE d
         IN CompareWithLater(next, pas, i, j + 1)

\* The outer loop of locate_dupes.
RECURSIVE SearchFrom(_, _, _)
SearchFrom(d, pas, i) ==
    IF i > Len(pas) THEN d
    ELSE SearchFrom(CompareWithLater(d, pas, i, i + 1), pas, i + 1)

\* Dupes.sort_values
sort_values(d) == [k \in DOMAIN d |-> SetToSortedSeq(d[k])]

locate_dupes(pas) == sort_values(SearchFrom(EmptyDupes, pas, 1))

\* -------------------------------------------------------- status reporter
RECURSIVE SumOver(_, _)
SumOver(f, S) ==
    IF S = {} THEN 0
    ELSE LET x == CHOOSE y \in S : TRUE IN f[x] + SumOver(f, S \ {x})

\* Dupes.sum_length_of_values
sum_length_of_values(d) == SumOver([k \in DOMAIN d |-> Len(d[k])], DOMAIN d)

\* As the definition below, with code 1 only when no duplicates were found.
status_code_from_first_branch(d, errs) ==
    LET errors == SumOver([c \in Cats |-> Len(errs[c])], Cats)
        total == sum_length_of_values(d)
        empty == DOMAIN d = {}
    IN [no_duplicates |-> empty, total |-> total, plural |-> total > 1,
        unread |-> errors,
        return_code |-> IF errors # 0 /\ empty THEN 1 ELSE 0]

\* Dupes.status.  The description is kept as its parts: whether it says that
\* no duplicates were found, the count it names, whether the count is in the
\* plural, and the number of unread files it names (0: none named).
status(d, errs) ==
    LET errors == SumOver([c \in Cats |-> Len(errs[c])], Cats)
        total == sum_length_of_values(d)
        plural == total > 1
        empty == DOMAIN d = {}
    IN CASE errors # 0 /\ empty ->
              [no_duplicates |-> TRUE, total |-> 0, plural |-> FALSE,
               unread |-> errors, return_code |-> 1]
         [] errors # 0 /\ ~empty ->
              [no_duplicates |-> FALSE, total |-> total, plural |-> plural,
               unread |-> errors, return_code |-> 1]
         [] errors = 0 /\ empty ->
              [no_duplicates |-> TRUE, total |-> 0, plural |-> FALSE,
               unread |-> 0, return_code |-> 0]
         [] OTHER ->
              [no_duplicates |-> FALSE, total |-> total, plural |-> plural,
               unread |-> 0, return_code |-> 0]

\* ------------------------------------------------------------------ state
VARIABLES
    fs,              \* the outcome of opening each path
    archive_file,    \* what the archive file named by -r holds
    archive,         \* the _Archive object of this invocation
    parents_exist,   \* whether each of file_path.parents exists, nearest first
    check_outcome,   \* how the handler of a not-found failure ended
    show_progress,   \* TRUE when main is invoked with --progress
    call,            \* the arguments of the function that is called alone
    frame,           \* that function's local variables, output and result
    cache_file,      \* the file ~/listdupes_cache
    run,             \* invocations of main started so far
    mode,            \* how main is invoked: "read_archive" (-r) or "folder"
    pc,              \* where the invocation is
    exc,             \* the exception travelling out of the checksum loop
    paths,           \* checksum_files: its input
    index,           \* the index enumerate() handed out last
    place,           \* checksum_files: place
    place_state,     \* checksum_files: place_state
    paths_and_sums,  \* the results container
    os_errors,       \* the errors container
    writer,          \* TRUE when a writer (cache.write_to_file) is passed
    checksum_result, \* what checksum_files returned
    dupes,           \* what locate_dupes returned
    search_status,   \* what Dupes.status returned
    main_result,     \* how the invocation ended
    opened,          \* history: paths opened in this invocation
    consumed,        \* history: entries whose outcome was stored in this run
    writer_calls,    \* history: the arguments of each call of the writer
    seed             \* history: what this run started from

engineVars == <<paths, index, place, place_state, paths_and_sums, os_errors,
                writer, exc>>

resultVars == <<checksum_result, dupes, search_status, main_result>>

historyVars == <<opened, consumed, writer_calls, seed>>

\* What no step of an invocation changes.
envVars == <<fs, archive_file, parents_exist, check_outcome, show_progress,
             call, frame>>

vars == <<envVars, archive, cache_file, run, mode, pc, engineVars, resultVars,
          historyVars>>

\* archive["sub_paths"]: _do_pre_checksumming_tasks archives sorted(sub_paths).
sub_paths == [i \in 1..NPaths |-> i]

NoChecksumResult == [paths_and_sums |-> <<>>, os_errors |-> [c \in Cats |-> <<>>]]

NoStatus ==
    [no_duplicates |-> TRUE, total |-> 0, plural |-> FALSE, unread |-> 0,
     return_code |-> 0]

NoResult == [kind |-> "none", message |-> "", return_code |-> 0, exc |-> "none"]

FreshSeed == [resumed |-> FALSE, place |-> 0, paths_and_sums |-> <<>>,
              os_errors |-> EmptyErrors]

\* As the definition below, without the slice.
sub_paths_from_the_start(place_in_cache) == sub_paths

\* get_checksum_input_values, line 839: archive["sub_paths"][cache["place"]:]
sub_paths_from(place_in_cache) ==
    SubSeq(sub_paths, place_in_cache + 1, Len(sub_paths))

\* An _Archive object before read_items_from_file: a mapping without keys.
EmptyArchive == [k \in {} |-> 0]

\* _Archive.read_items_from_file: json.load and the conversions of lines
\* 135-139.  JSONDecodeError and KeyError become a _ValidationError; the
\* TypeError of subscripting a value that is not an object, or of converting
\* a number, is not handled.  self.update runs only after all of them.
Archive_read_items_from_file(contents) ==
    CASE contents = "ok" ->
            [exc |-> "none", message |-> "",
             archive |-> [creation_time |-> ArchiveTime,
                          starting_path |-> StartingPath,
                          sub_paths |-> sub_paths]]
      [] contents \in {"invalid_json", "missing_key"} ->
            [exc |-> "_ValidationError", message |-> NotAnArchiveMessage,
             archive |-> EmptyArchive]
      [] OTHER ->
            [exc |-> "TypeError", message |-> "", archive |-> EmptyArchive]

\* No function is called alone.
NoCall == [function |-> "none"]

NoFrame == [returned |-> FALSE]

\* No handler of a not-found failure has run.
NoCheck == [called |-> FALSE, exc |-> "none", filename |-> 0, filename2 |-> 0]

\* Before the first invocation of main -r <archive>.
Init ==
    /\ fs \in FileSystems
    /\ mode = "read_archive"
    /\ archive_file \in ArchiveContents
    /\ archive = EmptyArchive
    /\ parents_exist = <<>>
    /\ check_outcome = NoCheck
    /\ show_progress = FALSE
    /\ call = NoCall
    /\ frame = NoFrame
    /\ cache_file \in InitialCacheFiles
    /\ run = 0
    /\ pc = "idle"
    /\ exc = "none"
    /\ paths = <<>>
    /\ index = 0
    /\ place = 0
    /\ place_state = 0
    /\ paths_and_sums = <<>>
    /\ os_errors = FreshErrors
    /\ writer = FALSE
    /\ checksum_result = NoChecksumResult
    /\ dupes = EmptyDupes
    /\ search_status = NoStatus
    /\ main_result = NoResult
    /\ opened = {}
    /\ consumed = 0
    /\ writer_calls = <<>>
    /\ seed = FreshSeed

\* ------------------------------------------------- before the checksumming
\* _do_pre_checksumming_tasks with read_archive: the archive is read, then an
\* existing cache is validated against it and read in full.
PreChecksummingOutcome(file) ==
    LET read == Archive_read_items_from_file(archive_file)
    IN IF read.exc # "none"
       THEN [exc |-> read.exc, message |-> read.message]
       ELSE IF ~file.exists
       THEN [exc |-> "none", message |-> ""]
       ELSE LET shared == Cache_read_and_set_shared_creation_and_start_values(
                              file, read.archive.creation_time)
            IN IF shared.exc # "none" THEN shared
               ELSE Cache_read_items_from_file(file)

\* The part of an invocation that is common to both of its beginnings.
BeginInvocation(m) ==
    /\ pc \in {"idle", "exited"}
    /\ run < MaxRuns
    /\ mode = m
    /\ run' = run + 1
    /\ exc' = "none"
    /\ index' = 0
    /\ place' = 0
    /\ opened' = {}
    /\ consumed' = 0
    /\ writer_calls' = <<>>
    /\ checksum_result' = NoChecksumResult
    /\ dupes' = EmptyDupes
    /\ search_status' = NoStatus
    /\ UNCHANGED <<envVars, cache_file, mode>>

\* main -r <archive>, up to the call of checksum_files:
\* _do_pre_checksumming_tasks, get_checksum_input_values, search_for_dupes.
StartReadArchive ==
    /\ BeginInvocation("read_archive")
    /\ archive' = Archive_read_items_from_file(archive_file).archive
    /\ LET pre == PreChecksummingOutcome(cache_file)
       IN IF pre.exc = "_ValidationError"
          THEN \* lines 771-772: early_exit with the message and code 1
               /\ main_result' = [kind |-> "early_exit", message |-> pre.message,
                                  return_code |-> 1, exc |-> "none"]
               /\ pc' = "exited"
               /\ paths' = <<>>
               /\ place_state' = 0
               /\ paths_and_sums' = <<>>
               /\ os_errors' = FreshErrors
               /\ writer' = FALSE
               /\ seed' = FreshSeed
          ELSE IF pre.exc # "none"
          THEN \* no handler: the exception leaves main
               /\ main_result' = [kind |-> "unhandled", message |-> "",
                                  return_code |-> 1, exc |-> pre.exc]
               /\ pc' = "exited"
               /\ paths' = <<>>
               /\ place_state' = 0
               /\ paths_and_sums' = <<>>
               /\ os_errors' = FreshErrors
               /\ writer' = FALSE
               /\ seed' = FreshSeed
          ELSE IF cache_file.exists
          THEN \* get_checksum_input_values, lines 838-846
               /\ main_result' = NoResult
               /\ pc' = "loop"
               /\ paths' = sub_paths_from(cache_file.place)
               /\ place_state' = cache_file.place
               /\ paths_and_sums' = cache_file.paths_and_sums
               /\ os_errors' = [type |-> "list", items |-> cache_file.os_errors]
               /\ writer' = TRUE
               /\ seed' = [resumed |-> TRUE, place |-> cache_file.place,
                           paths_and_sums |-> cache_file.paths_and_sums,
                           os_errors |-> cache_file.os_errors]
          ELSE \* get_checksum_input_values, lines 847-852
               /\ main_result' = NoResult
               /\ pc' = "loop"
               /\ paths' = sub_paths
               /\ place_state' = 0
               /\ paths_and_sums' = <<>>
               /\ os_errors' = FreshErrors
               /\ writer' = TRUE
               /\ seed' = FreshSeed

\* main <folder>: the paths come from the glob in any order, there is neither
\* archive nor cache, and no writer is passed.  Such invocations share no
\* state with each other or with the reads of an archive, so a behaviour has
\* one of them (SpecFolder).
StartFolder ==
    /\ BeginInvocation("folder")
    /\ pc = "idle"
    /\ archive' = EmptyArchive
    /\ \E order \in Permutations(Paths) :
          paths' = [i \in 1..NPaths |-> order[i]]
    /\ main_result' = NoResult
    /\ pc' = "loop"
    /\ place_state' = 0
    /\ paths_and_sums' = <<>>
    /\ os_errors' = FreshErrors
    /\ writer' = FALSE
    /\ seed' = FreshSeed

\* ------------------------------------------------------- checksum_files
\* One call of _checksum_file_and_store_outcome in the loop of lines 990-992.
ChecksumFile ==
    /\ pc = "loop"
    /\ index < Len(paths)
    /\ LET file_path == paths[index + 1]
           out == checksum_file_and_store_outcome(
                      file_path, fs[file_path], paths_and_sums, os_errors)
       IN /\ index' = index + 1
          /\ opened' = opened \cup {file_path}
          /\ paths_and_sums' = out.results
          /\ os_errors' = out.errors
          /\ exc' = out.exc
          /\ consumed' = IF out.stored THEN consumed + 1 ELSE consumed
          /\ pc' = IF out.exc = "none" THEN "stored" ELSE "finally"
    /\ UNCHANGED <<envVars, archive,
                   cache_file, run, mode, paths, place, place_state, writer,
                   resultVars, writer_calls, seed>>

\* As the definition below, with a directory left out of the count.
SetPlace_directory_not_counted ==
    /\ pc = "stored"
    /\ place' = IF fs[paths[index]].kind = "dir" THEN place ELSE index
    /\ pc' = "loop"
    /\ UNCHANGED <<envVars, archive, cache_file, run, mode, paths, index,
                   place_state, paths_and_sums, os_errors, writer, exc,
                   resultVars, historyVars>>

\* line 992: place = index
SetPlace ==
    /\ pc = "stored"
    /\ place' = index
    /\ pc' = "loop"
    /\ UNCHANGED <<envVars, archive,
                   cache_file, run, mode, paths, index, place_state,
                   paths_and_sums, os_errors, writer, exc, resultVars,
                   historyVars>>

\* The for loop runs out of paths.
LoopEnd ==
    /\ pc = "loop"
    /\ index = Len(paths)
    /\ pc' = "finally"
    /\ UNCHANGED <<envVars, archive,
                   cache_file, run, mode, engineVars, resultVars,
                   historyVars>>

\* A KeyboardInterrupt arrives in the loop: while a file is being read, or
\* between the return of _checksum_file_and_store_outcome and place = index.
Interrupt ==
    /\ pc \in {"loop", "stored"}
    /\ exc' = "KeyboardInterrupt"
    /\ pc' = "finally"
    /\ UNCHANGED <<envVars, archive,
                   cache_file, run, mode, paths, index, place, place_state,
                   paths_and_sums, os_errors, writer, resultVars, historyVars>>

\* As the definition below, without the early return of lines 228-229.
Finally_writes_without_checksums ==
    /\ pc = "finally"
    /\ IF writer
       THEN /\ writer_calls' = Append(writer_calls,
                   [paths_and_sums |-> paths_and_sums,
                    os_errors |-> os_errors.items,
                    place |-> place_state + place])
            /\ pc' = "writing"
            /\ cache_file' = GarbageFile
       ELSE /\ pc' = "after_finally"
            /\ UNCHANGED <<cache_file, writer_calls>>
    /\ UNCHANGED <<envVars, archive, run, mode, engineVars, resultVars,
                   opened, consumed, seed>>

\* As the definition below, with the file opened for writing before the test
\* for checksums.
Finally_truncates_before_return ==
    /\ pc = "finally"
    /\ IF writer
       THEN /\ writer_calls' = Append(writer_calls,
                   [paths_and_sums |-> paths_and_sums,
                    os_errors |-> os_errors.items,
                    place |-> place_state + place])
            /\ cache_file' = GarbageFile
            /\ pc' = IF paths_and_sums = <<>> THEN "after_finally" ELSE "writing"
       ELSE /\ pc' = "after_finally"
            /\ UNCHANGED <<cache_file, writer_calls>>
    /\ UNCHANGED <<envVars, archive, run, mode, engineVars, resultVars,
                   opened, consumed, seed>>

\* lines 993-996, and _Cache.write_to_file up to open(self.path, "w"): with
\* no checksums the writer returns early, otherwise the file is truncated.
Finally ==
    /\ pc = "finally"
    /\ IF writer
       THEN LET total_place == place_state + place
            IN /\ writer_calls' = Append(writer_calls,
                      [paths_and_sums |-> paths_and_sums,
                       os_errors |-> os_errors.items,
                       place |-> total_place])
               /\ IF paths_and_sums = <<>>
                  THEN /\ pc' = "after_finally"
                       /\ UNCHANGED cache_file
                  ELSE /\ pc' = "writing"
                       /\ cache_file' = GarbageFile
       ELSE /\ pc' = "after_finally"
            /\ UNCHANGED <<cache_file, writer_calls>>
    /\ UNCHANGED <<envVars, archive,
                   run, mode, engineVars, resultVars, opened, consumed,
                   seed>>

\* _Cache.write_to_file, lines 245-246: json.dump and the close of the file.
WriteDump ==
    /\ pc = "writing"
    /\ cache_file' = CacheDocument(ArchiveTime, StartingPath, paths_and_sums,
                                   os_errors.items, place_state + place)
    /\ pc' = "after_finally"
    /\ UNCHANGED <<envVars, archive,
                   run, mode, engineVars, resultVars, historyVars>>

\* A KeyboardInterrupt arrives during json.dump: the file keeps what was
\* written so far, and the interrupt leaves the finally block.
InterruptWrite ==
    /\ pc = "writing"
    /\ cache_file' \in {GarbageFile, PartialFile(ArchiveTime)}
    /\ exc' = "KeyboardInterrupt"
    /\ pc' = "after_finally"
    /\ UNCHANGED <<envVars, archive,
                   run, mode, paths, index, place, place_state,
                   paths_and_sums, os_errors, writer, resultVars, historyVars>>

\* As the definition below, with the KeyboardInterrupt caught in
\* checksum_files, which then sorts and returns.
EngineRaise_interrupt_caught ==
    /\ pc = "after_finally"
    /\ exc # "none"
    /\ IF exc = "KeyboardInterrupt"
       THEN /\ paths_and_sums' = SortResults(paths_and_sums)
            /\ checksum_result' = [paths_and_sums |-> SortResults(paths_and_sums),
                                   os_errors |-> SortErrors(os_errors.items)]
            /\ pc' = "returned"
            /\ UNCHANGED main_result
       ELSE /\ main_result' = [kind |-> "unhandled", message |-> "",
                               return_code |-> 1, exc |-> exc]
            /\ pc' = "exited"
            /\ UNCHANGED <<paths_and_sums, checksum_result>>
    /\ UNCHANGED <<envVars, archive,
                   cache_file, run, mode, paths, index, place, place_state,
                   os_errors, writer, exc, dupes, search_status, historyVars>>

\* The exception leaves checksum_files, search_for_dupes and main: a
\* KeyboardInterrupt is handled at lines 1332-1334, nothing else is.
EngineRaise ==
    /\ pc = "after_finally"
    /\ exc # "none"
    /\ main_result' =
          IF exc = "KeyboardInterrupt"
          THEN [kind |-> "interrupted", message |-> "You have quit the program.",
                return_code |-> 130, exc |-> exc]
          ELSE [kind |-> "unhandled", message |-> "", return_code |-> 1,
                exc |-> exc]
    /\ pc' = "exited"
    /\ UNCHANGED <<envVars, archive,
                   cache_file, run, mode, engineVars, checksum_result,
                   dupes, search_status, historyVars>>

\* lines 997-999: sort and return.
EngineReturn ==
    /\ pc = "after_finally"
    /\ exc = "none"
    /\ paths_and_sums' = SortResults(paths_and_sums)
    /\ checksum_result' = [paths_and_sums |-> SortResults(paths_and_sums),
                           os_errors |-> SortErrors(os_errors.items)]
    /\ pc' = "returned"
    /\ UNCHANGED <<envVars, archive,
                   cache_file, run, mode, paths, index, place, place_state,
                   os_errors, writer, exc, dupes, search_status, main_result,
                   historyVars>>

\* search_for_dupes, lines 1135-1138: locate_dupes and Dupes.status.
LocateAndDescribe ==
    /\ pc = "returned"
    /\ dupes' = locate_dupes(checksum_result.paths_and_sums)
    /\ search_status' = status(dupes', checksum_result.os_errors)
    /\ pc' = "located"
    /\ UNCHANGED <<envVars, archive,
                   cache_file, run, mode, engineVars, checksum_result,
                   main_result, historyVars>>

\* As the definition below, with the cache deleted before the results are
\* written.
MainOutput_cache_deleted_first ==
    /\ pc = "located"
    /\ \E write_fails \in BOOLEAN :
          /\ write_fails => DOMAIN dupes # {}
          /\ main_result' =
                IF write_fails
                THEN [kind |-> "returned", message |-> "", return_code |-> 1,
                      exc |-> "none"]
                ELSE [kind |-> "returned",
                      message |-> IF DOMAIN dupes = {} THEN "" ELSE "saved",
                      return_code |-> search_status.return_code,
                      exc |-> "none"]
    /\ cache_file' = IF mode = "read_archive" /\ cache_file.exists
                     THEN NoFile ELSE cache_file
    /\ pc' = "exited"
    /\ UNCHANGED <<envVars, archive, run, mode, engineVars, checksum_result,
                   dupes, search_status, historyVars>>

\* main, lines 1296-1325: the results are written; when that fails main
\* returns code 1, otherwise the cache is deleted after a read of an archive.
MainOutput ==
    /\ pc = "located"
    /\ \E write_fails \in BOOLEAN :
          /\ write_fails => DOMAIN dupes # {}
          /\ IF write_fails
             THEN /\ main_result' = [kind |-> "returned", message |-> "",
                                     return_code |-> 1, exc |-> "none"]
                  /\ UNCHANGED cache_file
             ELSE /\ main_result' =
                        [kind |-> "returned",
                         message |-> IF DOMAIN dupes = {} THEN "" ELSE "saved",
                         return_code |-> search_status.return_code,
                         exc |-> "none"]
                  /\ cache_file' = IF mode = "read_archive" /\ cache_file.exists
                                   THEN NoFile ELSE cache_file
    /\ pc' = "exited"
    /\ UNCHANGED <<envVars, archive,
                   run, mode, engineVars, checksum_result, dupes,
                   search_status, historyVars>>

\* A KeyboardInterrupt arrives in main after checksum_files has returned:
\* while the duplicates are located or the output is written.  It is handled
\* at lines 1332-1334 and the rest of main, the unlink of the cache included,
\* does not run.
InterruptMain ==
    /\ pc \in {"returned", "located"}
    /\ main_result' = [kind |-> "interrupted",
                       message |-> "You have quit the program.",
                       return_code |-> 130, exc |-> "KeyboardInterrupt"]
    /\ pc' = "exited"
    /\ UNCHANGED <<envVars, archive, cache_file, run, mode, engineVars,
                   checksum_result, dupes, search_status, historyVars>>

Next ==
    \/ StartReadArchive
    \/ ChecksumFile
    \/ SetPlace
    \/ LoopEnd
    \/ Interrupt
    \/ Finally
    \/ WriteDump
    \/ InterruptWrite
    \/ EngineRaise
    \/ EngineReturn
    \/ LocateAndDescribe
    \/ MainOutput
    \/ InterruptMain

Spec == Init /\ [][Next]_vars

\* ------------------------------------------------- the search of a folder
\* Before main <folder>.
InitFolder ==
    /\ fs \in FileSystems
    /\ mode = "folder"
    /\ archive_file = "ok"
    /\ archive = EmptyArchive
    /\ parents_exist = <<>>
    /\ check_outcome = NoCheck
    /\ show_progress = FALSE
    /\ call = NoCall
    /\ frame = NoFrame
    /\ cache_file = NoFile
    /\ run = 0
    /\ pc = "idle"
    /\ exc = "none"
    /\ paths = <<>>
    /\ index = 0
    /\ place = 0
    /\ place_state = 0
    /\ paths_and_sums = <<>>
    /\ os_errors = FreshErrors
    /\ writer = FALSE
    /\ checksum_result = NoChecksumResult
    /\ dupes = EmptyDupes
    /\ search_status = NoStatus
    /\ main_result = NoResult
    /\ opened = {}
    /\ consumed = 0
    /\ writer_calls = <<>>
    /\ seed = FreshSeed

\* Without a writer the steps of _Cache.write_to_file do not occur.
NextFolder ==
    \/ StartFolder
    \/ ChecksumFile
    \/ SetPlace
    \/ LoopEnd
    \/ Interrupt
    \/ Finally
    \/ EngineRaise
    \/ EngineReturn
    \/ LocateAndDescribe
    \/ MainOutput
    \/ InterruptMain

SpecFolder == InitFolder /\ [][NextFolder]_vars

\* ------------------------------------------- the grouper and the reporter
\* locate_dupes and Dupes.status are public functions: this specification
\* applies them to every checksum result of at most MaxLen entries, sorted or
\* not, with or without repeated paths, and every mix of error categories.
BoundedSeqs(S, n) == UNION {[1..k -> S] : k \in 0..n}

\* No unread file, or one in one of the categories.
ErrorLists ==
    {[c \in Cats |-> <<>>]}
        \cup {[c \in Cats |-> IF c = cat THEN <<<<1, ErrorText("perm")>>>> ELSE <<>>] :
                 cat \in Cats}

InitLocate ==
    /\ fs \in {[p \in Paths |-> [kind |-> "file", sum |-> 1]]}
    /\ archive_file = "ok"
    /\ archive = EmptyArchive
    /\ parents_exist = <<>>
    /\ check_outcome = NoCheck
    /\ show_progress = FALSE
    /\ call = NoCall
    /\ frame = NoFrame
    /\ cache_file = NoFile
    /\ run = 0
    /\ mode = "folder"
    /\ pc = "returned"
    /\ exc = "none"
    /\ paths = <<>>
    /\ index = 0
    /\ place = 0
    /\ place_state = 0
    /\ paths_and_sums = <<>>
    /\ os_errors = FreshErrors
    /\ writer = FALSE
    /\ \E pas \in BoundedSeqs(Paths \X Sums, MaxLen), errs \in ErrorLists :
          checksum_result = [paths_and_sums |-> pas, os_errors |-> errs]
    /\ dupes = EmptyDupes
    /\ search_status = NoStatus
    /\ main_result = NoResult
    /\ opened = {}
    /\ consumed = 0
    /\ writer_calls = <<>>
    /\ seed = FreshSeed

SpecLocate == InitLocate /\ [][LocateAndDescribe]_vars

\* ------------------------------------------- the handler of a lost file
\* _checksum_file_and_store_outcome, lines 933-939: open() has failed with
\* FileNotFoundError for the path the loop is at.  The record is added, then
\* the parents are checked.
HandleFileNotFound ==
    /\ pc = "loop"
    /\ ~check_outcome.called
    /\ parents_exist # <<>>
    /\ LET file_path == paths[index + 1]
           added == AddError(os_errors, "file_not_found_errors",
                             <<file_path, ErrorText("notfound")>>)
           check == check_parents_for_disconnection(parents_exist)
       IN /\ os_errors' = added.errors
          /\ check_outcome' =
                IF added.exc # "none"
                THEN [called |-> TRUE, exc |-> added.exc, filename |-> 0,
                      filename2 |-> 0]
                ELSE [called |-> TRUE, exc |-> check.exc,
                      filename |-> check.filename,
                      filename2 |-> check.filename2]
    /\ UNCHANGED <<fs, archive_file, parents_exist, show_progress, call,
                   frame, archive, cache_file, run, mode, pc, paths, index,
                   place, place_state, paths_and_sums, writer, exc, resultVars,
                   historyVars>>

\* The handler is applied to a path with up to MaxDepth parents, each there
\* or not, in a fresh run and in a run whose error collection was read from
\* a cache.
InitDisconnection ==
    /\ fs \in {[p \in Paths |-> [kind |-> "notfound", sum |-> 0]]}
    /\ archive_file = "ok"
    /\ archive = Archive_read_items_from_file("ok").archive
    /\ parents_exist \in BoundedSeqs(BOOLEAN, MaxDepth) \ {<<>>}
    /\ check_outcome = NoCheck
    /\ show_progress = FALSE
    /\ call = NoCall
    /\ frame = NoFrame
    /\ cache_file = NoFile
    /\ run = 1
    /\ mode = "read_archive"
    /\ pc = "loop"
    /\ exc = "none"
    /\ paths = sub_paths
    /\ index = 0
    /\ place = 0
    /\ place_state = 0
    /\ paths_and_sums = <<>>
    /\ os_errors \in {FreshErrors, [type |-> "list", items |-> EmptyErrors]}
    /\ writer = TRUE
    /\ checksum_result = NoChecksumResult
    /\ dupes = EmptyDupes
    /\ search_status = NoStatus
    /\ main_result = NoResult
    /\ opened = {}
    /\ consumed = 0
    /\ writer_calls = <<>>
    /\ seed = FreshSeed

SpecDisconnection == InitDisconnection /\ [][HandleFileNotFound]_vars

\* ------------------------------------------------------------ properties
\* What one uninterrupted run over the whole archive returns, read off the
\* file system: the readable paths in path order with their checksums, and
\* the unreadable paths by category.
ReadablePaths == {p \in Paths : fs[p].kind \in {"file", "empty"}}

UninterruptedResults ==
    [i \in 1..Cardinality(ReadablePaths) |->
        LET p == SetToSortedSeq(ReadablePaths)[i] IN <<p, fs[p].sum>>]

UninterruptedErrors ==
    [c \in Cats |->
        LET failing == {p \in Paths : fs[p].kind \in ErrorKinds
                                        /\ ErrorCat(fs[p].kind) = c}
        IN [i \in 1..Cardinality(failing) |->
              LET p == SetToSortedSeq(failing)[i]
              IN <<p, ErrorText(fs[p].kind)>>]]

NoDisconnection == \A p \in Paths : fs[p].kind # "disconnected"

\* checksum_files was left by an exception of its own loop.
EngineRaised == pc = "exited" /\ exc # "none"

\* The step that starts an invocation which reads the archive.
StartsReadArchive ==
    pc \in {"idle", "exited"} /\ mode = "read_archive" /\ run' = run + 1

\* C1: a run that was resumed from the cache which an interrupted run wrote
\* returns with a total place of N and the result list of one uninterrupted
\* run: every readable path once.
C1_ResumedRunMatchesUninterrupted ==
    (mode = "read_archive" /\ seed.resumed /\ pc = "returned")
        => /\ place_state + place = NPaths
           /\ checksum_result.paths_and_sums = UninterruptedResults

\* The seed of this run is the outcome of exactly the first seed.place paths.
SeedIsFirstK ==
    /\ seed.place \in 0..NPaths
    /\ seed.paths_and_sums =
          LET firstk == {p \in ReadablePaths : p <= seed.place}
          IN [i \in 1..Cardinality(firstk) |->
                LET p == SetToSortedSeq(firstk)[i] IN <<p, fs[p].sum>>]
    /\ \A c \in Cats :
          seed.os_errors[c] =
             {<<p, ErrorText(fs[p].kind)>> :
                 p \in {q \in Paths : /\ q <= seed.place
                                      /\ fs[q].kind \in ErrorKinds
                                      /\ ErrorCat(fs[q].kind) = c}}

\* C2: for every k and every mix of outcomes, a run over the paths from index
\* k that is seeded with the first k outcomes from a cache written and read
\* back, and is not interrupted itself, returns the results and errors of one
\* uninterrupted run.
C2_SeededRunReturnsSameResultsAndErrors ==
    (/\ mode = "read_archive"
     /\ seed.resumed
     /\ SeedIsFirstK
     /\ NoDisconnection
     /\ exc # "KeyboardInterrupt"
     /\ pc = "returned" \/ EngineRaised)
        => /\ pc = "returned"
           /\ checksum_result.paths_and_sums = UninterruptedResults
           /\ checksum_result.os_errors = UninterruptedErrors

\* C3: in every run, fresh or resumed, a permission, not-found or other OS
\* failure of a path is recorded in its category, the run is not aborted by
\* it, and a run that returns has been through all of its paths.
C3_FileErrorsAreRecordedAndDoNotAbort ==
    /\ \A i \in 1..index :
          LET kind == fs[paths[i]].kind
          IN kind \in {"perm", "notfound", "misc"}
                => /\ <<paths[i], ErrorText(kind)>>
                         \in os_errors.items[ErrorCat(kind)]
                   /\ exc \in {"none", "KeyboardInterrupt",
                               "PreviousFileNotFoundError"}
    /\ pc = "returned" => index = Len(paths)

\* C4: when a writer is given, it has been called once before control leaves
\* checksum_files, on every exit path, with the accumulated results and
\* errors and with a place of the prior place plus the number of entries of
\* this run whose outcome those containers hold.
C4_WriterCalledOnEveryExitWithPlaceOfConsumed ==
    (writer /\ pc = "after_finally")
        => writer_calls =
              <<[paths_and_sums |-> paths_and_sums,
                 os_errors |-> os_errors.items,
                 place |-> place_state + consumed]>>

\* C5: a KeyboardInterrupt of the checksum loop stays the exception in flight
\* through the finalizing write; it reaches the caller only after that write,
\* as the interrupt, with no checksum result returned and no grouping done.
C5_InterruptPropagatesAfterFinalWrite ==
    [][(exc = "KeyboardInterrupt" /\ pc \in {"finally", "writing", "after_finally"})
          => /\ exc' = "KeyboardInterrupt"
             /\ pc' \in {"finally", "writing", "after_finally", "exited"}
             /\ pc' = "exited"
                   => /\ pc = "after_finally"
                      /\ main_result'.kind = "interrupted"
                      /\ checksum_result' = NoChecksumResult
                      /\ dupes' = EmptyDupes]_vars

\* An interrupted run whose finalizing write went through has ended.
C5_Witness ==
    /\ pc = "exited"
    /\ main_result.kind = "interrupted"
    /\ Len(writer_calls) = 1
    /\ cache_file.exists
    /\ cache_file.body = "ok"

\* C6: an invocation that has read its archive and finds a cache file
\* carrying another archive's creation time ends at once with the
\* move-or-delete message and code 1; no file has been opened and the cache
\* file is as it was.
C6_MismatchedCacheFailsValidationFirst ==
    [][(/\ StartsReadArchive
        /\ archive_file = "ok"
        /\ cache_file.exists
        /\ cache_file.prefix = "ok"
        /\ cache_file.archive_creation_time # ArchiveTime)
          => /\ pc' = "exited"
             /\ main_result' = [kind |-> "early_exit",
                                message |-> MismatchMessage,
                                return_code |-> 1, exc |-> "none"]
             /\ opened' = {}
             /\ cache_file' = cache_file]_vars

\* An invocation was refused because of the other archive's complete cache.
C6_Witness ==
    /\ pc = "exited"
    /\ run >= 1
    /\ cache_file = ForeignCache
    /\ main_result.kind = "early_exit"
    /\ main_result.message = MismatchMessage
    /\ opened = {}

\* C7: whatever list of (path, checksum) pairs locate_dupes is given, no path
\* is a value of two groups of the mapping it returns.
C7_NoPathInTwoGroups ==
    \A k1, k2 \in DOMAIN dupes :
        k1 # k2 => Range(dupes[k1]) \cap Range(dupes[k2]) = {}

\* The groups C8 describes, read off the list of pairs.
IsPathSortedDistinct(pas) ==
    \A i, j \in 1..Len(pas) : i < j => pas[i][1] < pas[j][1]

PathsWithSum(pas, sum) == {pas[i][1] : i \in {j \in 1..Len(pas) : pas[j][2] = sum}}

SharedSums(pas) ==
    {sum \in Sums : Cardinality(PathsWithSum(pas, sum)) >= 2}

FirstPath(S) == CHOOSE x \in S : \A y \in S : x <= y

DescribedGroups(pas) ==
    [key \in {FirstPath(PathsWithSum(pas, sum)) : sum \in SharedSums(pas)} |->
        LET sum == CHOOSE c \in SharedSums(pas) :
                      key = FirstPath(PathsWithSum(pas, c))
        IN SetToSortedSeq(PathsWithSum(pas, sum) \ {key})]

\* C8: for a path-sorted list with distinct paths, locate_dupes returns one
\* group per checksum that two or more paths share, keyed by the first of
\* those paths and holding the others in order; a path with a checksum of its
\* own is in no group.
C8_OneSortedGroupPerSharedChecksum ==
    (pc = "located" /\ IsPathSortedDistinct(checksum_result.paths_and_sums))
        => dupes = DescribedGroups(checksum_result.paths_and_sums)

\* Three sorted paths with one checksum were grouped under the first.
C8_Witness ==
    /\ pc = "located"
    /\ IsPathSortedDistinct(checksum_result.paths_and_sums)
    /\ Len(checksum_result.paths_and_sums) = 3
    /\ \E key \in DOMAIN dupes : Len(dupes[key]) = 2

\* C9: Dupes.status returns code 1 exactly when some category holds an error
\* record and code 0 otherwise, with or without duplicates; its description
\* says that no duplicates were found exactly when the mapping is empty.
C9_StatusCodeFollowsErrors ==
    pc = "located"
        => /\ search_status.return_code =
                 IF \E c \in Cats : checksum_result.os_errors[c] # <<>>
                 THEN 1 ELSE 0
           /\ search_status.no_duplicates <=> DOMAIN dupes = {}

\* Duplicates were found and a file could not be read: code 1.
C9_Witness ==
    /\ pc = "located"
    /\ DOMAIN dupes # {}
    /\ \E c \in Cats : checksum_result.os_errors[c] # <<>>
    /\ search_status.return_code = 1
    /\ ~search_status.no_duplicates

\* A cache file whose contents cannot be parsed.
Corrupted(file) ==
    file.exists /\ (file.prefix = "bad" \/ file.body = "invalid_json")

\* C10: an invocation that has read its archive and finds a cache file which
\* cannot be parsed, its leading values included, ends with a validation
\* failure: code 1 and one of the two remedial messages.
C10_CorruptCacheIsValidationFailure ==
    [][(StartsReadArchive /\ archive_file = "ok" /\ Corrupted(cache_file))
          => /\ pc' = "exited"
             /\ main_result'.kind = "early_exit"
             /\ main_result'.return_code = 1
             /\ main_result'.message \in {MismatchMessage, CorruptMessage}]_vars

\* C11: an invocation whose archive file does not hold an archive document
\* (text that is not JSON, an object without one of the keys, a value that is
\* not an object, a value of the wrong type) ends with the 'not a valid
\* archive' validation failure and code 1, with no field loaded into the
\* archive object and no file opened.
C11_InvalidArchiveFailsClosed ==
    [][(StartsReadArchive /\ archive_file # "ok")
          => /\ pc' = "exited"
             /\ main_result' = [kind |-> "early_exit",
                                message |-> NotAnArchiveMessage,
                                return_code |-> 1, exc |-> "none"]
             /\ archive' = EmptyArchive
             /\ opened' = {}]_vars

\* C12: the full write of the cache is atomic: a step that changes the cache
\* file leaves it holding the complete document of that write (or removes the
\* file after the output); no step, an interrupted write included, leaves a
\* truncated or partly written file.
C12_CacheWriteIsAtomic ==
    [][cache_file' # cache_file
          => \/ pc = "located" /\ cache_file' = NoFile
             \/ cache_file' = CacheDocument(ArchiveTime, StartingPath,
                                            paths_and_sums, os_errors.items,
                                            place_state + place)]_vars

\* The parents as a file system has them: a parent is there only if every
\* parent above it is.
IsConsistentChain(exist) ==
    \A i, j \in 1..Len(exist) : (i < j /\ exist[i]) => exist[j]

\* The index of the nearest parent that exists, 0 when none does.
NearestExisting(exist) ==
    IF \E i \in 1..Len(exist) : exist[i]
    THEN CHOOSE i \in 1..Len(exist) :
            exist[i] /\ \A j \in 1..Len(exist) : exist[j] => i <= j
    ELSE 0

\* C13: in a fresh run, a not-found failure of a path with a parent that is
\* gone raises PreviousFileNotFoundError whose filename is a missing parent
\* and whose filename2 is the nearest (longest) parent that exists; when
\* every parent exists nothing is raised and the file is recorded as an
\* ordinary not-found error.
C13_DisconnectionCarriesNearestExistingAncestor ==
    (/\ check_outcome.called
     /\ seed = FreshSeed
     /\ os_errors.type = "set"
     /\ IsConsistentChain(parents_exist))
        => IF \E i \in 1..Len(parents_exist) : ~parents_exist[i]
           THEN /\ check_outcome.exc = "PreviousFileNotFoundError"
                /\ \E i \in 1..Len(parents_exist) :
                      i = check_outcome.filename /\ ~parents_exist[i]
                /\ check_outcome.filename2 = NearestExisting(parents_exist)
           ELSE /\ check_outcome.exc = "none"
                /\ os_errors.items =
                      [EmptyErrors EXCEPT !["file_not_found_errors"] =
                          {<<paths[index + 1], ErrorText("notfound")>>}]

IsSortedByPath(seq) ==
    \A i, j \in 1..Len(seq) : i < j => seq[i][1] <= seq[j][1]

EmptyPaths == {p \in Paths : fs[p].kind = "empty"}

\* C15: a readable file without data that the loop has been through has one
\* result entry, with the checksum of zero bytes, and no error record; when
\* the search of a folder has located the duplicates, two or more such files
\* are one group: the first of them is its key and the others its values.
C15_EmptyFilesAreResultsAndDuplicates ==
    /\ \A i \in 1..index :
          LET file_path == paths[i]
          IN fs[file_path].kind = "empty"
                => /\ Cardinality({j \in 1..Len(paths_and_sums) :
                                     paths_and_sums[j][1] = file_path}) = 1
                   /\ <<file_path, ChecksumOfNoData>> \in Range(paths_and_sums)
                   /\ \A c \in Cats : \A r \in os_errors.items[c] :
                         r[1] # file_path
    /\ (pc = "located" /\ Cardinality(EmptyPaths) >= 2)
          => /\ FirstPath(EmptyPaths) \in DOMAIN dupes
             /\ Range(dupes[FirstPath(EmptyPaths)])
                   = EmptyPaths \ {FirstPath(EmptyPaths)}

\* Two files without data and a file with data were searched; the two are
\* the only group.
C15_Witness ==
    /\ pc = "located"
    /\ Cardinality(EmptyPaths) = 2
    /\ \E p \in Paths : fs[p].kind = "file"
    /\ DOMAIN dupes = {FirstPath(EmptyPaths)}

\* The invocation ended because writing the results failed (lines 1311-1315).
WriteFailed ==
    /\ pc = "exited"
    /\ main_result.kind = "returned"
    /\ DOMAIN dupes # {}
    /\ main_result.message = ""

\* C16: when an invocation that reads an archive removes the cache file, its
\* run has been through the archive to the end and the results have just
\* been output without a failure; a step that ends the invocation by an
\* interrupt or by a failed write of the results leaves the cache file
\* there, so after such an end of a resumed run the file is present.
C16_CacheDeletedOnlyAfterCompleteOutput ==
    [][/\ (cache_file.exists /\ ~cache_file'.exists)
             => /\ mode = "read_archive"
                /\ pc = "located"
                /\ pc' = "exited"
                /\ exc = "none"
                /\ index = Len(paths)
                /\ place_state + place = Len(sub_paths)
                /\ main_result'.kind = "returned"
                /\ ~WriteFailed'
       /\ (pc' = "exited" /\ (main_result'.kind = "interrupted" \/ WriteFailed'))
             => /\ cache_file.exists => cache_file'.exists
                /\ seed'.resumed => cache_file'.exists]_vars

\* A resumed run has ended with its results saved and the cache removed.
C16_Witness ==
    /\ pc = "exited"
    /\ seed.resumed
    /\ main_result.kind = "returned"
    /\ main_result.message = "saved"
    /\ ~cache_file.exists

\* An invocation with the cache writer was ended by an interrupt after the
\* outcome of at least one entry was stored.
InterruptedAfterConsuming ==
    /\ pc = "exited"
    /\ writer
    /\ main_result.kind = "interrupted"
    /\ consumed >= 1

ResultsAddedFor(file_path) ==
    Cardinality({j \in 1..Len(paths_and_sums) :
                    paths_and_sums[j][1] = file_path})
        - Cardinality({j \in 1..Len(seed.paths_and_sums) :
                          seed.paths_and_sums[j][1] = file_path})

ErrorsAddedFor(file_path) ==
    {cr \in Cats \X {<<file_path, ErrorText(k)>> : k \in ErrorKinds} :
        /\ cr[2] \in os_errors.items[cr[1]]
        /\ cr[2] \notin seed.os_errors[cr[1]]}

\* C18: in every run each path the loop has been through has contributed
\* exactly one outcome: one result entry for a readable file, one error
\* record in one category for a file that could not be read, nothing for a
\* directory; and when the duplicates have been located, every readable file
\* that shares its checksum with another one is in a group, unreadable files
\* notwithstanding.
C18_EachConsumedPathHasOneOutcome ==
    /\ \A i \in 1..index :
          LET file_path == paths[i]
              kind == fs[file_path].kind
          IN /\ ResultsAddedFor(file_path)
                   = IF kind \in {"file", "empty"} THEN 1 ELSE 0
             /\ Cardinality(ErrorsAddedFor(file_path))
                   = IF kind \in ErrorKinds THEN 1 ELSE 0
    /\ pc = "located"
          => \A p, q \in ReadablePaths :
                (p # q /\ fs[p].sum = fs[q].sum)
                   => \E k \in DOMAIN dupes : p = k \/ p \in Range(dupes[k])

\* C19: the iteration over a path that is a directory leaves the results and
\* the errors as they were and raises nothing; the directory is counted all
\* the same: when checksum_files returns from a run over N entries place is
\* N (with the prior place, the length of the archive), and the run has
\* added at most N results.
C19_DirectoryAddsNothingAndIsCounted ==
    [][/\ (pc = "loop" /\ index' = index + 1 /\ fs[paths[index']].kind = "dir")
             => /\ paths_and_sums' = paths_and_sums
                /\ os_errors' = os_errors
                /\ exc' = "none"
                /\ pc' = "stored"
       /\ (pc = "after_finally" /\ pc' = "returned")
             => /\ place = Len(paths)
                /\ place_state + place = Len(sub_paths)
                /\ Len(paths_and_sums') - Len(seed.paths_and_sums) <= place
                /\ ~seed.resumed => Len(checksum_result'.paths_and_sums) <= place]_vars

\* A run over the whole archive, whose last entry is a directory, has
\* returned with fewer results than entries.
C19_Witness ==
    /\ pc = "returned"
    /\ ~seed.resumed
    /\ Len(paths) = NPaths
    /\ fs[paths[NPaths]].kind = "dir"
    /\ place = NPaths
    /\ Len(checksum_result.paths_and_sums) = NPaths - 1

\* The archive entries at the indexes from place_in_cache onward (indexes
\* counted from 0 as in the cache).
EntriesFrom(place_in_cache) ==
    {sub_paths[i] : i \in (place_in_cache + 1)..Len(sub_paths)}

\* C20: the input of a run that was resumed from a valid cache is the
\* archive's sub_paths from index place onward in the order of the archive;
\* the run opens them in that order and opens no entry below place; when
\* checksum_files has returned every entry from place onward has been
\* consumed.
C20_ResumedRunConsumesFromPlace ==
    seed.resumed
        => /\ paths = SubSeq(sub_paths, seed.place + 1, Len(sub_paths))
           /\ opened = {paths[i] : i \in 1..index}
           /\ opened \subseteq EntriesFrom(seed.place)
           /\ pc \in {"returned", "located"} => opened = EntriesFrom(seed.place)

\* A run resumed at a place inside the archive has returned.
C20_Witness ==
    /\ seed.resumed
    /\ seed.place \in 1..(NPaths - 1)
    /\ pc = "returned"
    /\ opened = EntriesFrom(seed.place)
    /\ 1 \notin opened

\* ------------------------------------------- checksumming with --progress
\* main -r <archive> --progress: search_for_dupes (lines 1118-1122) calls
\* checksum_files_and_show_progress, whose loop and finally block (lines
\* 1023-1036) are those of checksum_files with the counter printed after
\* place = index.  The archive is a valid one and no cache is there at first.
InitProgress ==
    /\ fs \in FileSystems
    /\ mode = "read_archive"
    /\ archive_file = "ok"
    /\ archive = EmptyArchive
    /\ parents_exist = <<>>
    /\ check_outcome = NoCheck
    /\ show_progress = TRUE
    /\ call = NoCall
    /\ frame = NoFrame
    /\ cache_file = NoFile
    /\ run = 0
    /\ pc = "idle"
    /\ exc = "none"
    /\ paths = <<>>
    /\ index = 0
    /\ place = 0
    /\ place_state = 0
    /\ paths_and_sums = <<>>
    /\ os_errors = FreshErrors
    /\ writer = FALSE
    /\ checksum_result = NoChecksumResult
    /\ dupes = EmptyDupes
    /\ search_status = NoStatus
    /\ main_result = NoResult
    /\ opened = {}
    /\ consumed = 0
    /\ writer_calls = <<>>
    /\ seed = FreshSeed

SpecProgress == InitProgress /\ [][Next]_vars

\* C21: with --progress and a writer, after the i-th file of the run has been
\* processed the writer has been called with place = prior place + i.
C21_WriterCalledAfterEachFile ==
    (/\ show_progress
     /\ writer
     /\ pc = "loop"
     /\ index >= 1)
        => \E k \in 1..Len(writer_calls) :
              writer_calls[k].place = place_state + index

\* ------------------------------------------------- the cache write alone
\* A cache of the archive as a completed write leaves it.
WrittenCache ==
    CacheDocument(ArchiveTime, StartingPath, <<<<1, 1>>>>, EmptyErrors, 1)

\* No unread file, or one in one of the categories.
ErrorSets ==
    {EmptyErrors}
        \cup {[c \in Cats |-> IF c = cat THEN {<<1, ErrorText("perm")>>} ELSE {}] :
                 cat \in Cats}

\* The finally block of checksum_files is entered with a writer, any file or
\* none at the cache's path, and any results, errors and place.
InitCacheWrite ==
    /\ fs \in {[p \in Paths |-> [kind |-> "file", sum |-> 1]]}
    /\ archive_file = "ok"
    /\ archive = Archive_read_items_from_file("ok").archive
    /\ parents_exist = <<>>
    /\ check_outcome = NoCheck
    /\ show_progress = FALSE
    /\ call = NoCall
    /\ frame = NoFrame
    /\ cache_file \in InitialCacheFiles \cup {WrittenCache}
    /\ run = 1
    /\ mode = "read_archive"
    /\ pc = "finally"
    /\ exc \in {"none", "KeyboardInterrupt"}
    /\ paths = sub_paths
    /\ index = 0
    /\ place_state \in 0..NPaths
    /\ place \in 0..(NPaths - place_state)
    /\ paths_and_sums \in BoundedSeqs(Paths \X Sums, 1)
    /\ \E errs \in ErrorSets, type \in {"set", "list"} :
          os_errors = [type |-> type, items |-> errs]
    /\ writer = TRUE
    /\ checksum_result = NoChecksumResult
    /\ dupes = EmptyDupes
    /\ search_status = NoStatus
    /\ main_result = NoResult
    /\ opened = {}
    /\ consumed = 0
    /\ writer_calls = <<>>
    /\ seed = FreshSeed

NextCacheWrite ==
    \/ Finally
    \/ WriteDump
    \/ InterruptWrite

SpecCacheWrite == InitCacheWrite /\ [][NextCacheWrite]_vars

\* C22: a cache write that is called with an empty result list returns with
\* the cache's path as it was: no file where there was none, the same
\* contents where there was one, whatever the errors and the place.
C22_EmptyCacheWriteChangesNothing ==
    [][(pc = "finally" /\ writer /\ paths_and_sums = <<>>)
          => /\ cache_file' = cache_file
             /\ pc' = "after_finally"
             /\ Len(writer_calls') = Len(writer_calls) + 1]_vars

\* The writer was called with errors and a place but no results, and there
\* is still no file.
C22_Witness ==
    /\ pc = "after_finally"
    /\ Len(writer_calls) = 1
    /\ writer_calls[1].paths_and_sums = <<>>
    /\ writer_calls[1].os_errors # EmptyErrors
    /\ writer_calls[1].place > 0
    /\ cache_file = NoFile

\* ------------------------------------------------ functions called alone
\* The state of main while a function of the module is called on its own:
\* no invocation has begun.
MainNotBegun ==
    /\ fs \in {[p \in Paths |-> [kind |-> "file", sum |-> 1]]}
    /\ archive_file = "ok"
    /\ archive = EmptyArchive
    /\ parents_exist = <<>>
    /\ check_outcome = NoCheck
    /\ show_progress = FALSE
    /\ cache_file = NoFile
    /\ run = 0
    /\ mode = "folder"
    /\ pc = "idle"
    /\ exc = "none"
    /\ paths = <<>>
    /\ index = 0
    /\ place = 0
    /\ place_state = 0
    /\ paths_and_sums = <<>>
    /\ os_errors = FreshErrors
    /\ writer = FALSE
    /\ checksum_result = NoChecksumResult
    /\ dupes = EmptyDupes
    /\ search_status = NoStatus
    /\ main_result = NoResult
    /\ opened = {}
    /\ consumed = 0
    /\ writer_calls = <<>>
    /\ seed = FreshSeed

mainVars ==
    <<fs, archive_file, parents_exist, check_outcome, show_progress, archive,
      cache_file, run, mode, pc, engineVars, resultVars, historyVars>>

\* ------------------------------------------------ _make_file_path_unique
\* Names are numbers: 0 is the given path, n >= 1 is
\* path.parent / (path.stem + str(n) + path.suffix).
\* range(1, 256), line 611: the stop value.
RangeStop == 256

\* How many names beyond the first free one may be taken as well.
MaxExtra == 2

\* The function is called in a folder where the names below k are taken, k
\* is free, and any of the next MaxExtra names are taken.
InitUnique ==
    /\ MainNotBegun
    /\ \E k \in 0..RangeStop, extra \in SUBSET (1..MaxExtra) :
          call = [function |-> "_make_file_path_unique",
                  taken |-> (0..(k - 1)) \cup {k + e : e \in extra}]
    /\ frame = [numeric_suffix |-> 1, new_path |-> <<>>, attempts |-> 0,
                returned |-> FALSE, exc |-> "none", result |-> <<>>]

\* As the definition below, with a new name returned without a look at the
\* folder.
MakeUniqueStep_new_path_not_tested ==
    /\ call.function = "_make_file_path_unique"
    /\ ~frame.returned
    /\ IF frame.numeric_suffix >= RangeStop
       THEN frame' = [frame EXCEPT !.returned = TRUE,
                                   !.exc = "FileExistsError"]
       ELSE IF 0 \notin call.taken /\ frame.new_path = <<>>
       THEN frame' = [frame EXCEPT !.returned = TRUE, !.result = <<0>>,
                                   !.attempts = @ + 1]
       ELSE IF frame.new_path = <<>>
       THEN frame' = [frame EXCEPT !.new_path = <<frame.numeric_suffix>>,
                                   !.numeric_suffix = @ + 1,
                                   !.attempts = @ + 1]
       ELSE frame' = [frame EXCEPT !.returned = TRUE,
                                   !.result = frame.new_path,
                                   !.attempts = @ + 1]
    /\ UNCHANGED <<mainVars, call>>

\* One pass of the loop of lines 611-617, or the raise of line 618 when the
\* range is used up.  new_path is <<>> for None.
MakeUniqueStep ==
    /\ call.function = "_make_file_path_unique"
    /\ ~frame.returned
    /\ IF frame.numeric_suffix >= RangeStop
       THEN frame' = [frame EXCEPT !.returned = TRUE,
                                   !.exc = "FileExistsError"]
       ELSE IF 0 \notin call.taken /\ frame.new_path = <<>>
       THEN frame' = [frame EXCEPT !.returned = TRUE, !.result = <<0>>,
                                   !.attempts = @ + 1]
       ELSE IF frame.new_path = <<>> \/ frame.new_path[1] \in call.taken
       THEN frame' = [frame EXCEPT !.new_path = <<frame.numeric_suffix>>,
                                   !.numeric_suffix = @ + 1,
                                   !.attempts = @ + 1]
       ELSE frame' = [frame EXCEPT !.returned = TRUE,
                                   !.result = frame.new_path,
                                   !.attempts = @ + 1]
    /\ UNCHANGED <<mainVars, call>>

SpecUnique == InitUnique /\ [][MakeUniqueStep]_vars

\* The call of _make_file_path_unique has ended.
UniqueEnded == call.function = "_make_file_path_unique" /\ frame.returned

\* The given path when it is free, otherwise the name of the smallest suffix
\* that is free.
SmallestFree(taken) ==
    CHOOSE n \in 0..(RangeStop + MaxExtra + 1) :
        n \notin taken /\ \A m \in 0..(n - 1) : m \in taken

\* C23 as stated: the call returns the given path when it does not exist and
\* otherwise the name of the smallest suffix n >= 1 that does not exist; the
\* returned name does not exist; FileExistsError is raised only after 255
\* attempts found every candidate taken.
C23_ReturnsSmallestFreeName ==
    UniqueEnded =>
        IF \E n \in 0..(RangeStop - 1) : n \notin call.taken
        THEN /\ frame.exc = "none"
             /\ frame.result = <<SmallestFree(call.taken)>>
             /\ frame.result[1] \notin call.taken
        ELSE /\ frame.exc = "FileExistsError"
             /\ frame.attempts = RangeStop - 1

\* C23, amended: the suffixes that are tried are 1..254.  The call returns
\* the given path when it does not exist, otherwise the name of the smallest
\* suffix in 1..254 that does not exist; the returned name does not exist;
\* FileExistsError is raised exactly when the given path and the names of
\* the suffixes 1..254 all exist, after 255 passes of the loop.
C23_ReturnsSmallestFreeNameBelow255 ==
    UniqueEnded =>
        IF \E n \in 0..(RangeStop - 2) : n \notin call.taken
        THEN /\ frame.exc = "none"
             /\ frame.result = <<SmallestFree(call.taken)>>
             /\ frame.result[1] \notin call.taken
        ELSE /\ frame.exc = "FileExistsError"
             /\ frame.attempts = RangeStop - 1

\* The given path and the suffix 1 exist, 2 is free and 3 exists: 2 is
\* returned.
C23_Witness ==
    /\ UniqueEnded
    /\ call.taken = {0, 1, 3}
    /\ frame.result = <<2>>

\* C24: in the mapping returned by locate_dupes every key has at least one
\* duplicate, no path is both a key and a duplicate (so none is a duplicate
\* of itself), and there is a key exactly when two entries of the input have
\* the same checksum.
C24_GroupsAreNonEmptyAndKeysAreNotValues ==
    pc = "located" =>
        LET pas == checksum_result.paths_and_sums
        IN /\ \A key \in DOMAIN dupes : Len(dupes[key]) >= 1
           /\ \A key, other \in DOMAIN dupes : key \notin Range(dupes[other])
           /\ (DOMAIN dupes # {})
                 <=> \E i, j \in 1..Len(pas) : i < j /\ pas[i][2] = pas[j][2]

\* The cache file is a complete document written for the archive.
IsCacheOfArchive(file) ==
    /\ file.exists
    /\ file.prefix = "ok"
    /\ file.body = "ok"
    /\ file.archive_creation_time = ArchiveTime

\* The paths with a checksum or an error record in a cache document.
ReflectedIn(file) ==
    {file.paths_and_sums[i][1] : i \in 1..Len(file.paths_and_sums)}
        \cup UNION {{record[1] : record \in file.os_errors[c]} : c \in Cats}

\* C25: over the runs against one archive of N entries, interrupted or not
\* and each resumed from the cache of the one before, every write leaves a
\* place that is not below the place of the cache it resumed from and not
\* above N, and the entries with a checksum or error record in the cache are
\* exactly the first place entries of the archive less the directories.
C25_PlaceIsMonotoneBoundedAndCountsReflectedEntries ==
    [][(pc = "writing" /\ IsCacheOfArchive(cache_file'))
          => /\ cache_file'.place >= place_state
             /\ cache_file'.place <= Len(sub_paths)
             /\ ReflectedIn(cache_file')
                   = {sub_paths[i] : i \in
                         {j \in 1..cache_file'.place :
                             fs[sub_paths[j]].kind # "dir"}}]_vars

\* ---------------------------------------- _search_stdin_and_stream_results
\* The most lines that stdin holds.
MaxLines == 3

\* A line of stdin names something that is no folder, a folder with
\* duplicates in it, or a folder without.
LineKinds == {"invalid", "dupes", "no_dupes"}

\* Filter mode is entered with the lines of stdin unread.  kwargs holds the
\* keys of kwargs_for_writer besides format; index is the value enumerate
\* gives next.
InitFilter ==
    /\ MainNotBegun
    /\ \E lines \in BoundedSeqs(LineKinds, MaxLines), format \in {"csv", "json"} :
          call = [function |-> "_search_stdin_and_stream_results",
                  lines |-> lines, format |-> format]
    /\ frame = [index |-> 0, kwargs |-> {"closefd"}, stdout |-> <<>>,
                return_codes |-> <<>>, returned |-> FALSE]

\* Dupes.write_any_items_to and write_to_csv / write_to_json: the rows that
\* one call appends to stdout.  Without duplicates nothing is written; the
\* label row is written unless labels = [] was passed.
write_any_items_to(line, format, kwargs) ==
    IF line # "dupes" THEN <<>>
    ELSE IF format = "json" THEN <<"json">>
    ELSE IF "labels" \in kwargs THEN <<"data">>
    ELSE <<"label", "data">>

\* One pass of the loop of lines 1192-1209.
FilterLine ==
    /\ call.function = "_search_stdin_and_stream_results"
    /\ ~frame.returned
    /\ frame.index < Len(call.lines)
    /\ LET line == call.lines[frame.index + 1]
           kwargs == IF frame.index = 1 /\ call.format = "csv"
                     THEN frame.kwargs \cup {"labels"}
                     ELSE frame.kwargs
       IN frame' =
             IF line = "invalid"
             THEN [frame EXCEPT !.index = @ + 1,
                                !.return_codes = Append(@, 1)]
             ELSE [frame EXCEPT !.index = @ + 1,
                                !.kwargs = kwargs,
                                !.stdout = @ \o write_any_items_to(
                                                   line, call.format, kwargs),
                                !.return_codes = Append(@, 0)]
    /\ UNCHANGED <<mainVars, call>>

\* stdin is used up: line 1210.
FilterReturn ==
    /\ call.function = "_search_stdin_and_stream_results"
    /\ ~frame.returned
    /\ frame.index = Len(call.lines)
    /\ frame' = [frame EXCEPT !.returned = TRUE]
    /\ UNCHANGED <<mainVars, call>>

NextFilter ==
    \/ FilterLine
    \/ FilterReturn

SpecFilter == InitFilter /\ [][NextFilter]_vars

\* C26: in filter mode with CSV output, whatever the lines of stdin, stdout
\* holds at most one label row, and no data row comes before it.
C26_LabelRowAtMostOnceAndFirst ==
    (call.function = "_search_stdin_and_stream_results" /\ call.format = "csv")
        => \A i \in 1..Len(frame.stdout) :
              frame.stdout[i] = "label" => i = 1

\* ------------------------------------------------- chunks and checksums
\* checksummer is zlib.crc32 (line 34).  A 32-bit value is the set of the
\* positions of its one bits, a byte the same over 0..7.
AllOnes == 0..31

\* The reflected CRC-32 polynomial, EDB88320 in hexadecimal.
Polynomial == {5, 8, 9, 15, 19, 20, 21, 23, 24, 26, 27, 29, 30, 31}

Xor(a, b) == (a \ b) \cup (b \ a)

ShiftRight(a) == {i - 1 : i \in a \ {0}}

\* One bit of the register is shifted out.
RECURSIVE ShiftOut(_, _)
ShiftOut(crc, times) ==
    IF times = 0 THEN crc
    ELSE ShiftOut(IF 0 \in crc THEN Xor(ShiftRight(crc), Polynomial)
                  ELSE ShiftRight(crc),
                  times - 1)

RECURSIVE UpdateRegister(_, _, _)
UpdateRegister(crc, data, i) ==
    IF i > Len(data) THEN crc
    ELSE UpdateRegister(ShiftOut(Xor(crc, data[i]), 8), data, i + 1)

\* As the definition below, with the running value left out.
checksummer_without_value(data, value) ==
    Xor(UpdateRegister(AllOnes, data, 1), AllOnes)

\* zlib.crc32(data, value): the checksum of data, continued from value.
checksummer(data, value) ==
    Xor(UpdateRegister(Xor(value, AllOnes), data, 1), AllOnes)

\* The longest content of a file.
MaxBytes == 3

\* The bytes 00, 01 and FF.
SomeBytes == {{}, {0}, 0..7}

RECURSIVE SumOfLengths(_)
SumOfLengths(lengths) ==
    IF lengths = <<>> THEN 0
    ELSE Head(lengths) + SumOfLengths(Tail(lengths))

\* The ways a generator can split n bytes into chunks that are not empty.
Chunkings(n) == {c \in BoundedSeqs(1..n, n) : SumOfLengths(c) = n}

\* _chunk_file: the lengths of the chunks it yields for n bytes.
chunk_file(n, chunk_size) ==
    [i \in 1..((n + chunk_size - 1) \div chunk_size) |->
        IF i * chunk_size <= n THEN chunk_size ELSE n - (i - 1) * chunk_size]

\* _checksum_file_and_store_outcome has opened a file of at most MaxBytes
\* bytes, and its generator splits it in one of the possible ways, those of
\* _chunk_file with any chunk_size among them.
InitChunks ==
    /\ MainNotBegun
    /\ \E content \in BoundedSeqs(SomeBytes, MaxBytes) :
          \E chunking \in Chunkings(Len(content)) :
             call = [function |-> "_checksum_file_and_store_outcome",
                     content |-> content, chunking |-> chunking]
    /\ frame = [chunks_read |-> 0, position |-> 0, checksum |-> {},
                returned |-> FALSE]

\* chunk_generator.__next__() at line 915, or one pass of the loop of lines
\* 921-922, or the end of either.
ReadChunk ==
    /\ call.function = "_checksum_file_and_store_outcome"
    /\ ~frame.returned
    /\ IF frame.chunks_read = Len(call.chunking)
       THEN \* StopIteration: at the first chunk the checksum of no data
            frame' = [frame EXCEPT
                         !.checksum = IF frame.chunks_read = 0
                                      THEN checksummer(<<>>, {})
                                      ELSE @,
                         !.returned = TRUE]
       ELSE LET length == call.chunking[frame.chunks_read + 1]
                chunk == SubSeq(call.content, frame.position + 1,
                                frame.position + length)
            IN frame' = [frame EXCEPT
                            !.checksum = checksummer(chunk, @),
                            !.position = @ + length,
                            !.chunks_read = @ + 1]
    /\ UNCHANGED <<mainVars, call>>

SpecChunks == InitChunks /\ [][ReadChunk]_vars

\* The file has been read to its end.
ChunksEnded ==
    call.function = "_checksum_file_and_store_outcome" /\ frame.returned

\* C27: whatever the content and the way it is split into chunks, the
\* checksum seeded with the first chunk and folded over the others is the
\* checksum of the content as a single chunk, so two chunkings of one
\* content (1-byte pieces, one chunk) give the same checksum.
C27_ChecksumIsIndependentOfChunking ==
    ChunksEnded => frame.checksum = checksummer(call.content, {})

\* Three bytes were read in 1-byte pieces.
C27_Witness ==
    /\ ChunksEnded
    /\ call.chunking = chunk_file(Len(call.content), 1)
    /\ call.content = <<0..7, {}, {0}>>
    /\ frame.checksum = {0, 3, 5, 6, 8, 10, 11, 12, 14, 15, 17, 18, 19, 20,
                         22, 23, 25, 26, 28, 29}

====
